---- MODULE Spec2Model ----
(***************************************************************************)
(* glean-collections-sync: run() of src/main.ts dispatching one            *)
(* CollectionsManager.syncCollection per configuration, against the remote *)
(* platform (search, createcollection, listcollections, getcollection,     *)
(* addcollectionitems, deletecollectionitem).                              *)
(*                                                                         *)
(* Every `await this.client.post(...)` is a suspend point.  One action of  *)
(* the model is: the remote answers the call a task has in flight, and the *)
(* task's code runs on to its next call (which it issues) or to its        *)
(* return/throw, including the settling of run()'s Promise.all.            *)
(*                                                                         *)
(* Spec:      one configuration, invoked up to MaxRuns times, with other   *)
(*            writers on the remote taking up to MaxExt steps.             *)
(* SpecBatch: batches of two configurations (and the empty batch) running  *)
(*            concurrently, invoked up to MaxRuns times.                   *)
(* SpecRequest: parseFilters and createApiPayload applied to filter        *)
(*            expressions of up to MaxTokens tokens and a query.           *)
(***************************************************************************)
EXTENDS Integers, Sequences, FiniteSets, TLC

\* ------------------------------------------------------------- bounds
\* longest search response, in result items
MaxResults == 2
\* longest filter expression, in tokens
MaxTokens == 3
\* invocations of run() (the workflow is scheduled: the action runs again)
MaxRuns == 2
\* steps of writers other than this program on the remote platform
MaxExt == 1
\* longest search response when a batch holds several configurations
MaxBatchResults == 1

\* ------------------------------------------------------------- inputs
\* Document ids are strings; "1", "10" and "2" are written as their
\* sequences of characters (digits), so that string order is computed.
DocIds == {<<1>>, <<1, 0>>, <<2>>}

\* Collection names; "C" and "c" differ only in case.
Names == {"C", "c"}

\* The collection-sync-configs input of run(): JSON text that parses to a
\* list of configurations, or text that does not (the list cut off before
\* its end, or one configuration written without the list around it):
\* configs is then what the text was meant to hold.
Inputs ==
  { [valid |-> TRUE,  configs |-> <<[name |-> "C"]>>],
    [valid |-> FALSE, configs |-> <<[name |-> "C"]>>] }

\* Batches: two configurations of different names, two of the same name,
\* the empty list, and a list of two that does not parse.
BatchInputs ==
  { [valid |-> TRUE, configs |-> <<[name |-> "C"], [name |-> "c"]>>],
    [valid |-> TRUE, configs |-> <<[name |-> "C"], [name |-> "C"]>>],
    [valid |-> TRUE, configs |-> <<>>],
    [valid |-> FALSE, configs |-> <<[name |-> "C"], [name |-> "c"]>>] }

\* the documents the queries of a batch match
BatchDocIds == {<<1>>, <<2>>}

\* sequences over S of length at most n
RECURSIVE SeqsUpTo(_, _)
SeqsUpTo(S, n) ==
  IF n = 0 THEN {<<>>}
  ELSE LET shorter == SeqsUpTo(S, n - 1)
       IN  shorter \cup {Append(s, x) : s \in shorter, x \in S}

\* A search response body: `results` may be missing altogether.
ResponsesOver(docs, n) ==
  {[hasResults |-> TRUE, results |-> [k \in DOMAIN s |-> [document |-> s[k]]]] :
     s \in SeqsUpTo(docs, n)}
  \cup {[hasResults |-> FALSE, results |-> <<>>]}

\* The search responses tried for a batch of n configurations.
SearchResponses(n) ==
  IF n > 1 THEN ResponsesOver(BatchDocIds, MaxBatchResults)
  ELSE ResponsesOver(DocIds, MaxResults)

Range(s) == {s[k] : k \in DOMAIN s}

\* Filter expressions and queries are strings, written as their sequences
\* of characters.  The keys of the tokens: two plain field names, two that
\* are decimal numbers ("10" and "2"), and "constructor".
Keys ==
  { <<"a">>, <<"b">>, <<"1", "0">>, <<"2">>,
    <<"c", "o", "n", "s", "t", "r", "u", "c", "t", "o", "r">> }

Values == { <<"x">>, <<"y">> }

\* key:value tokens
Tokens == [key : Keys, value : Values]

Queries == { <<>>, <<"q">> }

\* the filter expression written from a sequence of tokens: key:value,
\* a single space between two tokens
RECURSIVE expression(_)
expression(ts) ==
  IF ts = <<>> THEN <<>>
  ELSE LET token == Head(ts).key \o <<":">> \o Head(ts).value
       IN  IF Tail(ts) = <<>> THEN token
           ELSE token \o <<" ">> \o expression(Tail(ts))

\* ------------------------------------------------------ pure functions
\* mutant: no array is found to include anything
includesNothing(ids, id) == FALSE

\* Array.prototype.includes
includes(ids, id) == \E k \in DOMAIN ids : ids[k] = id

\* `x || []` on a possibly missing array field
orEmpty(has, arr) == IF has THEN arr ELSE <<>>

\* getDocumentDetails: one descriptor per item, in item order (title, url
\* and itemType are carried along unchanged and are left out here).
getDocumentDetails(items) ==
  [k \in DOMAIN items |-> [documentId |-> items[k].document]]

\* documentDetails.map((doc) => doc.documentId)
documentIdsOf(details) == [k \in DOMAIN details |-> details[k].documentId]

\* String comparison by code units, as the default comparator of
\* Array.prototype.sort does: a < b.
RECURSIVE LexLess(_, _)
LexLess(a, b) ==
  IF b = <<>> THEN FALSE
  ELSE IF a = <<>> THEN TRUE
  ELSE IF Head(a) # Head(b) THEN Head(a) < Head(b)
  ELSE LexLess(Tail(a), Tail(b))

\* insert x into the sorted sequence s, after its equals (sort is stable)
RECURSIVE InsertSorted(_, _)
InsertSorted(s, x) ==
  IF s = <<>> THEN <<x>>
  ELSE IF LexLess(x, Head(s)) THEN <<x>> \o s
  ELSE <<Head(s)>> \o InsertSorted(Tail(s), x)

RECURSIVE SortFrom(_, _)
SortFrom(acc, s) ==
  IF s = <<>> THEN acc ELSE SortFrom(InsertSorted(acc, Head(s)), Tail(s))

\* mutant: the array is returned as it came, unsorted
sortLeftOut(ids) == ids

\* ids.sort(): no comparator given
sort(ids) == SortFrom(<<>>, ids)

\* mutant: every id of the search counts as new
newDocumentIdsUnfiltered(searchDocumentIds, existingDocumentIds) ==
  searchDocumentIds

\* searchDocumentIds.filter((id) => !existingDocumentIds.includes(id))
newDocumentIdsOf(searchDocumentIds, existingDocumentIds) ==
  SelectSeq(searchDocumentIds, LAMBDA id : ~includes(existingDocumentIds, id))

\* mutant: the filter tests the array it filters, and keeps nothing
oldDocumentIdsSelfFiltered(searchDocumentIds, existingDocumentIds) ==
  SelectSeq(existingDocumentIds, LAMBDA id : ~includes(existingDocumentIds, id))

\* existingDocumentIds.filter((id) => !searchDocumentIds.includes(id))
oldDocumentIdsOf(searchDocumentIds, existingDocumentIds) ==
  SelectSeq(existingDocumentIds, LAMBDA id : ~includes(searchDocumentIds, id))

\* mutant: all the documents of the search are handed to the add loop
newDocumentsUnfiltered(documentDetails, newDocumentIds) == documentDetails

\* documentDetails.filter((doc) => newDocumentIds.includes(doc.documentId))
newDocumentsOf(documentDetails, newDocumentIds) ==
  SelectSeq(documentDetails, LAMBDA doc : includes(newDocumentIds, doc.documentId))

\* addItemsToCollection: one addcollectionitems call per item, in order
addCalls(items) ==
  [k \in DOMAIN items |-> [op |-> "add", documentId |-> items[k].documentId]]

\* the loop over oldDocumentIds: one deletecollectionitem call per id
deleteCalls(ids) ==
  [k \in DOMAIN ids |-> [op |-> "delete", documentId |-> ids[k]]]

\* mutant: the removal loop comes before the additions
updatePlanRemovalsFirst(newDocuments, oldDocumentIds) ==
  deleteCalls(oldDocumentIds) \o addCalls(newDocuments)

\* The item calls of the existing-collection path, in the order the code
\* issues them: the additions, then the removals.
updatePlan(newDocuments, oldDocumentIds) ==
  addCalls(newDocuments) \o deleteCalls(oldDocumentIds)

\* mutant: every 422 counts as NAME_EXISTS
createCollectionAny422(response) ==
  IF response.status = 422
  THEN [errorCode |-> "NAME_EXISTS", id |-> response.data.id]
  ELSE [errorCode |-> response.data.errorCode, id |-> response.data.id]

\* createCollection: the CollectionResponse made of the HTTP response
createCollection(response) ==
  IF response.status = 422 /\ response.data.error.errorCode = "NAME_EXISTS"
  THEN [errorCode |-> "NAME_EXISTS", id |-> response.data.id]
  ELSE [errorCode |-> response.data.errorCode, id |-> response.data.id]

\* lower case of a collection name
toLowerCase(name) == IF name = "C" THEN "c" ELSE name

\* mutant: the names are compared ignoring case
findCollectionIgnoringCase(list, collectionName) ==
  LET hits == {k \in DOMAIN list :
                 toLowerCase(list[k].name) = toLowerCase(collectionName)}
  IN  IF hits = {} THEN 0 ELSE CHOOSE k \in hits : \A h \in hits : k <= h

\* mutant: the first collection of the listing is taken, whatever its name
findCollectionFirstListed(list, collectionName) ==
  IF list = <<>> THEN 0 ELSE 1

\* collections.find((collection) => collection.name === collectionName):
\* the position of the first match, 0 for none (|| null)
findCollection(list, collectionName) ==
  LET hits == {k \in DOMAIN list : list[k].name = collectionName}
  IN  IF hits = {} THEN 0 ELSE CHOOSE k \in hits : \A h \in hits : k <= h

\* ------------------------------------------------- the search request
\* the value of a variable or property that has none
undefined == <<"undefined">>

\* String.prototype.split(separator), the separator one character: cur is
\* the piece being read.  The empty string splits into one empty piece.
RECURSIVE splitFrom(_, _, _)
splitFrom(cur, s, separator) ==
  IF s = <<>> THEN <<cur>>
  ELSE IF Head(s) = separator
  THEN <<cur>> \o splitFrom(<<>>, Tail(s), separator)
  ELSE splitFrom(Append(cur, Head(s)), Tail(s), separator)

split(s, separator) == splitFrom(<<>>, s, separator)

\* `const filterDict: FilterDict = {}` is a plain object.  Its own
\* properties are kept as [key, values] in the order they were created;
\* a name it does not own is looked up in Object.prototype, which has
\* these (among others), none of them undefined and none with a push().
ObjectPrototypeKeys ==
  { <<"c", "o", "n", "s", "t", "r", "u", "c", "t", "o", "r">>,
    <<"t", "o", "S", "t", "r", "i", "n", "g">>,
    <<"v", "a", "l", "u", "e", "O", "f">> }

\* position of the own property `key`, 0 for none
ownProperty(filterDict, key) ==
  LET hits == {k \in DOMAIN filterDict : filterDict[k].key = key}
  IN  IF hits = {} THEN 0 ELSE CHOOSE k \in hits : TRUE

\* the loop of parseFilters over the parts; `filterDict[key].push` of an
\* inherited property is not a function: TypeError
RECURSIVE parseParts(_, _)
parseParts(state, parts) ==
  IF parts = <<>> \/ state.threw THEN state
  ELSE LET pieces == split(Head(parts), ":")
           key == pieces[1]
           value == IF Len(pieces) >= 2 THEN pieces[2] ELSE undefined
           clause == [value |-> value, relationType |-> "EQUALS"]
           p == ownProperty(state.filterDict, key)
       IN  IF p # 0
           THEN parseParts(
                  [state EXCEPT !.filterDict[p].values = Append(@, clause)],
                  Tail(parts))
           ELSE IF key \in ObjectPrototypeKeys
           THEN [state EXCEPT !.threw = TRUE]
           ELSE parseParts(
                  [state EXCEPT !.filterDict =
                     Append(@, [key |-> key, values |-> <<clause>>])],
                  Tail(parts))

\* parseFilters: the FilterDict, or the exception
parseFilters(filterExpression) ==
  IF filterExpression = <<>>
  THEN [threw |-> FALSE, filterDict |-> <<>>]
  ELSE parseParts([threw |-> FALSE, filterDict |-> <<>>],
                  split(filterExpression, " "))

isDigit(c) == c \in {"0", "1", "2", "3", "4", "5", "6", "7", "8", "9"}

\* a property name that is an array index: a decimal number written
\* without a leading zero (the names here stay far below 2^32 - 1)
isArrayIndex(key) ==
  /\ key # <<>>
  /\ \A k \in DOMAIN key : isDigit(key[k])
  /\ Len(key) > 1 => key[1] # "0"

digit(c) ==
  CASE c = "0" -> 0 [] c = "1" -> 1 [] c = "2" -> 2 [] c = "3" -> 3
    [] c = "4" -> 4 [] c = "5" -> 5 [] c = "6" -> 6 [] c = "7" -> 7
    [] c = "8" -> 8 [] c = "9" -> 9

RECURSIVE toNumber(_)
toNumber(key) ==
  IF key = <<>> THEN 0
  ELSE 10 * toNumber(SubSeq(key, 1, Len(key) - 1)) + digit(key[Len(key)])

RECURSIVE insertByIndex(_, _)
insertByIndex(es, e) ==
  IF es = <<>> THEN <<e>>
  ELSE IF toNumber(e.key) < toNumber(Head(es).key) THEN <<e>> \o es
  ELSE <<Head(es)>> \o insertByIndex(Tail(es), e)

RECURSIVE byIndex(_, _)
byIndex(acc, es) ==
  IF es = <<>> THEN acc ELSE byIndex(insertByIndex(acc, Head(es)), Tail(es))

\* Object.entries of a plain object: the own properties whose names are
\* array indices come first, in ascending numeric order, then the other
\* string-named ones in the order they were created.
entries(filterDict) ==
  byIndex(<<>>, SelectSeq(filterDict, LAMBDA e : isArrayIndex(e.key)))
    \o SelectSeq(filterDict, LAMBDA e : ~isArrayIndex(e.key))

NoPayload ==
  [pageSize |-> 0, requestOptions |-> [facetFilters |-> <<>>],
   hasQuery |-> FALSE, query |-> undefined]

\* mutant: the query field is set whatever the query is
createApiPayloadQueryAlways(queryString, filterExpression) ==
  LET parsed == parseFilters(filterExpression)
      es == entries(parsed.filterDict)
      facetFilters ==
        [k \in DOMAIN es |-> [fieldName |-> es[k].key, values |-> es[k].values]]
  IN  IF parsed.threw
      THEN [threw |-> TRUE, payload |-> NoPayload]
      ELSE [threw |-> FALSE,
            payload |->
              [pageSize |-> 1000,
               requestOptions |-> [facetFilters |-> facetFilters],
               hasQuery |-> TRUE,
               query |-> queryString]]

\* createApiPayload: the payload of the search request, or the exception
\* of parseFilters.  `if (query)` takes the empty string for no query.
createApiPayload(queryString, filterExpression) ==
  LET parsed == parseFilters(filterExpression)
      es == entries(parsed.filterDict)
      facetFilters ==
        [k \in DOMAIN es |-> [fieldName |-> es[k].key, values |-> es[k].values]]
  IN  IF parsed.threw
      THEN [threw |-> TRUE, payload |-> NoPayload]
      ELSE [threw |-> FALSE,
            payload |->
              [pageSize |-> 1000,
               requestOptions |-> [facetFilters |-> facetFilters],
               hasQuery |-> queryString # <<>>,
               query |-> IF queryString # <<>> THEN queryString ELSE undefined]]

\* ------------------------------------------------------------- results
\* The values syncCollection returns.  A field the code leaves out is <<>>
\* (or 0 for collection_id); message and error keep the collection name
\* the template string puts in them.
NoValue == <<>>

\* mutant: a run with nothing to add and nothing to remove is an error
updatedResultNoOpIsError(collectionName, collectionId, newDocumentIds, oldDocumentIds) ==
  IF newDocumentIds = <<>> /\ oldDocumentIds = <<>>
  THEN [message |-> NoValue,
        error |-> <<"Nothing to update", collectionName>>,
        collection_id |-> 0,
        collection_name |-> NoValue,
        added_documents |-> NoValue,
        removed_documents |-> NoValue]
  ELSE [message |-> <<"Updated existing collection", collectionName>>,
        error |-> NoValue,
        collection_id |-> collectionId,
        collection_name |-> <<collectionName>>,
        added_documents |-> sort(newDocumentIds),
        removed_documents |-> sort(oldDocumentIds)]

updatedResult(collectionName, collectionId, newDocumentIds, oldDocumentIds) ==
  [message |-> <<"Updated existing collection", collectionName>>,
   error |-> NoValue,
   collection_id |-> collectionId,
   collection_name |-> <<collectionName>>,
   added_documents |-> sort(newDocumentIds),
   removed_documents |-> sort(oldDocumentIds)]

createdResult(collectionName, collectionId, searchDocumentIds) ==
  [message |-> <<"Created new collection", collectionName>>,
   error |-> NoValue,
   collection_id |-> collectionId,
   collection_name |-> <<collectionName>>,
   added_documents |-> searchDocumentIds,
   removed_documents |-> NoValue]

\* mutant: the error value does not name the collection
notFoundResultUnnamed(collectionName) ==
  [message |-> NoValue,
   error |-> <<"Collection not found">>,
   collection_id |-> 0,
   collection_name |-> NoValue,
   added_documents |-> NoValue,
   removed_documents |-> NoValue]

notFoundResult(collectionName) ==
  [message |-> NoValue,
   error |-> <<"Collection not found", collectionName>>,
   collection_id |-> 0,
   collection_name |-> NoValue,
   added_documents |-> NoValue,
   removed_documents |-> NoValue]

createErrorResult ==
  [message |-> NoValue,
   error |-> <<"Error creating collection">>,
   collection_id |-> 0,
   collection_name |-> NoValue,
   added_documents |-> NoValue,
   removed_documents |-> NoValue]

NoResult ==
  [message |-> NoValue, error |-> NoValue, collection_id |-> 0,
   collection_name |-> NoValue, added_documents |-> NoValue,
   removed_documents |-> NoValue]

\* -------------------------------------------------------------- state
VARIABLES
  input,        \* the collection-sync-configs input of run()
  index,        \* remote: the search response to each configuration's query
  collections,  \* remote: the collections, in listing order, with their items
  nextId,       \* remote: the id the next created collection gets
  extCount,     \* steps other writers have taken
  runs,         \* invocations of run() so far
  published,    \* what run() published: "none", "result" or "failed"
  output,       \* the value of the 'result' output
  pc,           \* per configuration: the call its syncCollection awaits
  locals,       \* per configuration: the local variables of syncCollection
  calls,        \* per configuration: the remote calls issued, in order
  results,      \* per configuration: the value syncCollection returned
  settled,      \* the configurations whose syncCollection has returned, in
                \* the order in which they returned
  disturbed,    \* per configuration: another writer touched its collection
  prevOk,       \* per configuration: the previous run succeeded, undisturbed,
                \* and the search response has not changed since
  tokens,       \* the key:value tokens a filter expression is written from
  filters,      \* the filter expression, a string
  query,        \* the search query, a string
  returned      \* what parseFilters or createApiPayload returned for them

vars == <<input, index, collections, nextId, extCount, runs, published,
          output, pc, locals, calls, results, settled, disturbed, prevOk,
          tokens, filters, query, returned>>

\* the variables of the search request construction
requestVars == <<tokens, filters, query, returned>>

remoteVars == <<index, collections, nextId, extCount>>

Tasks == DOMAIN input.configs

collectionName(i) == input.configs[i].name

NoLocals ==
  [documentDetails |-> <<>>, searchDocumentIds |-> <<>>, isNew |-> FALSE,
   collectionId |-> 0, existingDocumentIds |-> <<>>,
   newDocumentIds |-> <<>>, oldDocumentIds |-> <<>>, todo |-> <<>>]

InitWith(inputs) ==
  /\ input \in inputs
  /\ index = [i \in DOMAIN input.configs |->
                [hasResults |-> FALSE, results |-> <<>>]]
  /\ collections = <<>>
  /\ nextId = 1
  /\ extCount = 0
  /\ runs = 0
  /\ published = "none"
  /\ output = <<>>
  /\ pc = [i \in DOMAIN input.configs |-> "idle"]
  /\ locals = [i \in DOMAIN input.configs |-> NoLocals]
  /\ calls = [i \in DOMAIN input.configs |-> <<>>]
  /\ results = [i \in DOMAIN input.configs |-> NoResult]
  /\ settled = <<>>
  /\ disturbed = [i \in DOMAIN input.configs |-> FALSE]
  /\ prevOk = [i \in DOMAIN input.configs |-> FALSE]

\* nothing has been returned yet
NotReturned ==
  [by |-> "none", threw |-> FALSE, filterDict |-> <<>>, payload |-> NoPayload]

\* no filter expression, no query
NoRequest ==
  /\ tokens = <<>>
  /\ filters = <<>>
  /\ query = <<>>
  /\ returned = NotReturned

Init == InitWith(Inputs) /\ NoRequest

InitBatch == InitWith(BatchInputs) /\ NoRequest

\* a filter expression of up to MaxTokens tokens and a query, no
\* configuration dispatched
InitRequest ==
  /\ InitWith({[valid |-> TRUE, configs |-> <<>>]})
  /\ tokens \in SeqsUpTo(Tokens, MaxTokens)
  /\ filters = expression(tokens)
  /\ query \in Queries
  /\ returned = NotReturned

\* ------------------------------------------------------------- helpers
\* the call in flight has been answered with r
Answered(cs, r) == [cs EXCEPT ![Len(cs)].res = r]

\* a call is issued
Issue(cs, op, documentId) ==
  Append(cs, [op |-> op, documentId |-> documentId, res |-> "pending"])

AllAnswered(cs, r) == \A k \in DOMAIN cs : cs[k].res \in r

\* the search response as syncCollection reads it
searchIdsOf(responseJson) ==
  documentIdsOf(getDocumentDetails(
    orEmpty(responseJson.hasResults, responseJson.results)))

\* syncCollection of configuration i returned a Created or Updated result
\* and every call it made was answered
Succeeded(i) ==
  /\ pc[i] = "done"
  /\ results[i].error = NoValue
  /\ AllAnswered(calls[i], {"ok", "exists"})

\* position of the collection with this id in the remote's list, 0 for none
PosOfId(id) ==
  LET hits == {k \in DOMAIN collections : collections[k].id = id}
  IN  IF hits = {} THEN 0 ELSE CHOOSE k \in hits : TRUE

NameTaken(name) == \E k \in DOMAIN collections : collections[k].name = name

\* a write by task i (0: another writer) to a collection of this name
\* disturbs every other configuration of that name
Disturb(i, name) ==
  [j \in Tasks |-> disturbed[j] \/ (j # i /\ collectionName(j) = name)]

\* mutant: the values are collected in the order the promises fulfilled
promiseAllInCompletionOrder(values, order) ==
  [k \in 1..Len(order) |-> values[order[k]]]

\* Promise.all of fulfilled promises: the array has one slot per promise,
\* and slot k holds the value of the k-th promise handed in, whenever it
\* fulfilled.
promiseAll(values, order) ==
  [k \in 1..Len(order) |-> values[k]]

\* mutant: the output is set as soon as one syncCollection has returned
ReturnWithoutWaiting(i, value, cs) ==
  LET all == [results EXCEPT ![i] = value] IN
  /\ pc' = [pc EXCEPT ![i] = "done"]
  /\ results' = all
  /\ calls' = [calls EXCEPT ![i] = cs]
  /\ settled' = Append(settled, i)
  /\ IF published = "none"
     THEN published' = "result" /\ output' = all
     ELSE UNCHANGED <<published, output>>

\* Promise.all over the syncCollection promises, as run() awaits it: when
\* the last promise fulfils, core.setOutput('result', results).
Return(i, value, cs) ==
  LET all == [results EXCEPT ![i] = value] IN
  /\ pc' = [pc EXCEPT ![i] = "done"]
  /\ results' = all
  /\ calls' = [calls EXCEPT ![i] = cs]
  /\ settled' = Append(settled, i)
  /\ IF published = "none" /\ \A j \in Tasks \ {i} : pc[j] = "done"
     THEN published' = "result" /\ output' = promiseAll(all, Append(settled, i))
     ELSE UNCHANGED <<published, output>>

\* mutant: the rejection is caught and an error value returned
ThrowCaught(i, cs) ==
  Return(i, createErrorResult, cs)

\* a call rejected: syncCollection throws, Promise.all rejects with the
\* first rejection and run() catches it: core.setFailed.
Throw(i, cs) ==
  /\ pc' = [pc EXCEPT ![i] = "thrown"]
  /\ calls' = [calls EXCEPT ![i] = cs]
  /\ published' = IF published = "none" THEN "failed" ELSE published
  /\ UNCHANGED <<results, output, settled>>

\* the value syncCollection returns once its item calls are through
finalResult(i, l) ==
  IF l.isNew
  THEN createdResult(collectionName(i), l.collectionId, l.searchDocumentIds)
  ELSE updatedResult(collectionName(i), l.collectionId,
                     l.newDocumentIds, l.oldDocumentIds)

\* issue the next item call of the plan, or return when none is left
Proceed(i, l, plan, cs) ==
  IF plan = <<>>
  THEN /\ locals' = [locals EXCEPT ![i] = [l EXCEPT !.todo = <<>>]]
       /\ Return(i, finalResult(i, l), cs)
  ELSE /\ locals' = [locals EXCEPT ![i] = [l EXCEPT !.todo = Tail(plan)]]
       /\ pc' = [pc EXCEPT ![i] = Head(plan).op]
       /\ calls' = [calls EXCEPT
                      ![i] = Issue(cs, Head(plan).op, Head(plan).documentId)]
       /\ UNCHANGED <<results, published, output, settled>>

\* ------------------------------------------------- run() of src/main.ts
\* mutant: the exception is swallowed and an empty result is published
RunMalformedSwallowed ==
  /\ \A i \in Tasks : pc[i] = "idle"
  /\ published = "none"
  /\ runs < MaxRuns
  /\ ~input.valid
  /\ runs' = runs + 1
  /\ published' = "result"
  /\ output' = <<>>
  /\ UNCHANGED <<requestVars, input, remoteVars, pc, locals, calls, results,
                 settled, disturbed, prevOk>>

\* run(): JSON.parse throws on the input, or what it returns has no map();
\* the catch block reports it.
RunMalformed ==
  /\ \A i \in Tasks : pc[i] = "idle"
  /\ published = "none"
  /\ runs < MaxRuns
  /\ ~input.valid
  /\ runs' = runs + 1
  /\ published' = "failed"
  /\ output' = <<>>
  /\ UNCHANGED <<requestVars, input, remoteVars, pc, locals, calls, results,
                 settled, disturbed, prevOk>>

\* run(): the input parses; map() calls syncCollection for every
\* configuration in turn, and each runs up to its first await, the search
\* request.  Promise.all of no promises fulfils at once.  By the time of an
\* invocation the search index holds whatever it holds: newIndex.
Run ==
  /\ \A i \in Tasks : pc[i] = "idle"
  /\ published = "none"
  /\ runs < MaxRuns
  /\ input.valid
  /\ runs' = runs + 1
  /\ \E newIndex \in [Tasks -> SearchResponses(Len(input.configs))] :
       /\ index' = newIndex
       /\ prevOk' = [i \in Tasks |->
                       /\ prevOk[i]
                       /\ ~disturbed[i]
                       /\ searchIdsOf(newIndex[i]) = searchIdsOf(index[i])]
  /\ pc' = [i \in Tasks |-> "search"]
  /\ calls' = [i \in Tasks |-> Issue(<<>>, "search", NoValue)]
  /\ published' = IF Tasks = {} THEN "result" ELSE "none"
  /\ disturbed' = [i \in Tasks |-> FALSE]
  /\ UNCHANGED <<requestVars, input, collections, nextId, extCount, locals,
                 results, output, settled>>

\* Every syncCollection has settled and run() has published: the process
\* of this invocation ends, and nothing of it is left but what it did to
\* the remote.
Exit ==
  /\ published # "none"
  /\ \A i \in Tasks : pc[i] \in {"idle", "done", "thrown"}
  /\ prevOk' = [i \in Tasks |-> Succeeded(i) /\ ~disturbed[i]]
  /\ pc' = [i \in Tasks |-> "idle"]
  /\ locals' = [i \in Tasks |-> NoLocals]
  /\ calls' = [i \in Tasks |-> <<>>]
  /\ results' = [i \in Tasks |-> NoResult]
  /\ settled' = <<>>
  /\ published' = "none"
  /\ output' = <<>>
  /\ UNCHANGED <<requestVars, input, remoteVars, runs, disturbed>>

\* --------------------------------------------------- syncCollection
\* doSearch resolves: lines 267-271, up to the createcollection request.
SearchReturns(i) ==
  /\ pc[i] = "search"
  /\ LET responseJson == index[i]
         documentDetails ==
           getDocumentDetails(orEmpty(responseJson.hasResults, responseJson.results))
         searchDocumentIds == documentIdsOf(documentDetails)
     IN  locals' = [locals EXCEPT ![i] =
                      [@ EXCEPT !.documentDetails = documentDetails,
                                !.searchDocumentIds = searchDocumentIds]]
  /\ pc' = [pc EXCEPT ![i] = "create"]
  /\ calls' = [calls EXCEPT ![i] = Issue(Answered(@, "ok"), "create", NoValue)]
  /\ UNCHANGED <<requestVars, input, remoteVars, runs, published, output,
                 results, settled, disturbed, prevOk>>

\* mutant: on NAME_EXISTS the items are asked for without the listing
AfterCreateSkipsListing(i, response, cs) ==
  LET collectionResponse == createCollection(response) IN
  IF collectionResponse.errorCode = "NAME_EXISTS"
  THEN /\ pc' = [pc EXCEPT ![i] = "items"]
       /\ calls' = [calls EXCEPT ![i] = Issue(cs, "items", NoValue)]
       /\ UNCHANGED <<locals, results, published, output, settled>>
  ELSE IF collectionResponse.id # 0
  THEN LET l == [locals[i] EXCEPT !.collectionId = collectionResponse.id,
                                  !.isNew = TRUE]
       IN  Proceed(i, l, addCalls(l.documentDetails), cs)
  ELSE /\ Return(i, createErrorResult, cs)
       /\ UNCHANGED locals

\* syncCollection from the answer to createcollection on: lines 271-279
\* and 314-326.  `if (collectionId)` takes 0 for no id.
AfterCreate(i, response, cs) ==
  LET collectionResponse == createCollection(response) IN
  IF collectionResponse.errorCode = "NAME_EXISTS"
  THEN /\ pc' = [pc EXCEPT ![i] = "list"]
       /\ calls' = [calls EXCEPT ![i] = Issue(cs, "list", NoValue)]
       /\ UNCHANGED <<locals, results, published, output, settled>>
  ELSE IF collectionResponse.id # 0
  THEN LET l == [locals[i] EXCEPT !.collectionId = collectionResponse.id,
                                  !.isNew = TRUE]
       IN  Proceed(i, l, addCalls(l.documentDetails), cs)
  ELSE /\ Return(i, createErrorResult, cs)
       /\ UNCHANGED locals

\* The remote answers createcollection: 422 NAME_EXISTS when a collection
\* of that name exists, else it creates the collection and returns its id.
\* The response is the object client.post resolves with; a call that
\* rejects instead is CallFails.
CreateReturns(i) ==
  /\ pc[i] = "create"
  /\ IF NameTaken(collectionName(i))
     THEN /\ AfterCreate(i,
               [status |-> 422,
                data |-> [error |-> [errorCode |-> "NAME_EXISTS"],
                          errorCode |-> "", id |-> 0]],
               Answered(calls[i], "exists"))
          /\ UNCHANGED <<collections, nextId, disturbed>>
     ELSE /\ collections' = Append(collections,
               [id |-> nextId, name |-> collectionName(i), items |-> <<>>])
          /\ nextId' = nextId + 1
          /\ disturbed' = Disturb(i, collectionName(i))
          /\ AfterCreate(i,
               [status |-> 200,
                data |-> [error |-> [errorCode |-> ""],
                          errorCode |-> "", id |-> nextId]],
               Answered(calls[i], "ok"))
  /\ UNCHANGED <<requestVars, input, index, extCount, runs, prevOk>>

\* The remote answers createcollection with neither an id nor NAME_EXISTS
\* (a validation error, or a body without an id); nothing is created.
CreateRefused(i) ==
  /\ pc[i] = "create"
  /\ \E response \in
         { [status |-> 422,
            data |-> [error |-> [errorCode |-> "INVALID"],
                      errorCode |-> "", id |-> 0]],
           [status |-> 200,
            data |-> [error |-> [errorCode |-> ""],
                      errorCode |-> "", id |-> 0]] } :
       AfterCreate(i, response, Answered(calls[i], "refused"))
  /\ UNCHANGED <<requestVars, input, remoteVars, runs, disturbed, prevOk>>

\* getAllCollections resolves: findCollection, lines 274-280.
ListReturns(i) ==
  /\ pc[i] = "list"
  /\ LET list == [k \in DOMAIN collections |->
                    [id |-> collections[k].id, name |-> collections[k].name]]
         existingCollection == findCollection(list, collectionName(i))
         cs == Answered(calls[i], "ok")
     IN  IF existingCollection = 0
         THEN /\ Return(i, notFoundResult(collectionName(i)), cs)
              /\ UNCHANGED locals
         ELSE /\ locals' = [locals EXCEPT
                              ![i].collectionId = list[existingCollection].id]
              /\ pc' = [pc EXCEPT ![i] = "items"]
              /\ calls' = [calls EXCEPT ![i] = Issue(cs, "items", NoValue)]
              /\ UNCHANGED <<results, published, output, settled>>
  /\ UNCHANGED <<requestVars, input, remoteVars, runs, disturbed, prevOk>>

\* getCollectionItems resolves: lines 280-311.  The remote leaves `items`
\* out of the body of a collection that has none.
ItemsReturns(i) ==
  /\ pc[i] = "items"
  /\ PosOfId(locals[i].collectionId) # 0
  /\ LET stored == collections[PosOfId(locals[i].collectionId)].items
         items == [k \in DOMAIN stored |-> [document |-> stored[k]]]
         existingDocumentIds ==
           documentIdsOf(getDocumentDetails(orEmpty(stored # <<>>, items)))
         newDocumentIds ==
           newDocumentIdsOf(locals[i].searchDocumentIds, existingDocumentIds)
         oldDocumentIds ==
           oldDocumentIdsOf(locals[i].searchDocumentIds, existingDocumentIds)
         newDocuments == newDocumentsOf(locals[i].documentDetails, newDocumentIds)
         l == [locals[i] EXCEPT !.existingDocumentIds = existingDocumentIds,
                                !.newDocumentIds = newDocumentIds,
                                !.oldDocumentIds = oldDocumentIds]
     IN  Proceed(i, l, updatePlan(newDocuments, oldDocumentIds),
                 Answered(calls[i], "ok"))
  /\ UNCHANGED <<requestVars, input, remoteVars, runs, disturbed, prevOk>>

\* The remote applies an addcollectionitems call (a document already in
\* the collection stays once) and the loop of addItemsToCollection, or the
\* code after it, goes on.
AddReturns(i) ==
  /\ pc[i] = "add"
  /\ PosOfId(locals[i].collectionId) # 0
  /\ LET p == PosOfId(locals[i].collectionId)
         d == calls[i][Len(calls[i])].documentId
     IN  /\ collections' = [collections EXCEPT ![p].items =
                              IF includes(@, d) THEN @ ELSE Append(@, d)]
         /\ disturbed' = Disturb(i, collections[p].name)
  /\ Proceed(i, locals[i], locals[i].todo, Answered(calls[i], "ok"))
  /\ UNCHANGED <<requestVars, input, index, nextId, extCount, runs, prevOk>>

\* The remote applies a deletecollectionitem call and the loop over
\* oldDocumentIds, or the return after it, goes on.
DeleteReturns(i) ==
  /\ pc[i] = "delete"
  /\ PosOfId(locals[i].collectionId) # 0
  /\ LET p == PosOfId(locals[i].collectionId)
         d == calls[i][Len(calls[i])].documentId
     IN  /\ collections' = [collections EXCEPT ![p].items =
                              SelectSeq(@, LAMBDA x : x # d)]
         /\ disturbed' = Disturb(i, collections[p].name)
  /\ Proceed(i, locals[i], locals[i].todo, Answered(calls[i], "ok"))
  /\ UNCHANGED <<requestVars, input, index, nextId, extCount, runs, prevOk>>

\* The call in flight fails (transport error, non-success status): the
\* await rejects, nothing catches it inside syncCollection.
CallFails(i) ==
  /\ pc[i] \in {"search", "create", "list", "items", "add", "delete"}
  /\ Throw(i, Answered(calls[i], "rejected"))
  /\ UNCHANGED <<requestVars, input, remoteVars, runs, locals, disturbed, prevOk>>

\* ---------------------------------------------------- the environment
\* Another writer creates a collection.
ExtCreate ==
  /\ extCount < MaxExt
  /\ \E n \in Names :
       /\ ~NameTaken(n)
       /\ collections' = Append(collections,
            [id |-> nextId, name |-> n, items |-> <<>>])
       /\ disturbed' = Disturb(0, n)
  /\ nextId' = nextId + 1
  /\ extCount' = extCount + 1
  /\ UNCHANGED <<requestVars, input, index, runs, published, output, pc, locals, calls,
                 results, settled, prevOk>>

\* Another writer deletes a collection.
ExtDelete ==
  /\ extCount < MaxExt
  /\ \E p \in DOMAIN collections :
       /\ collections' = [k \in 1..(Len(collections) - 1) |->
                            IF k < p THEN collections[k] ELSE collections[k + 1]]
       /\ disturbed' = Disturb(0, collections[p].name)
  /\ extCount' = extCount + 1
  /\ UNCHANGED <<requestVars, input, index, nextId, runs, published, output, pc, locals,
                 calls, results, settled, prevOk>>

\* Another writer adds a document to a collection.
ExtAdd ==
  /\ extCount < MaxExt
  /\ \E p \in DOMAIN collections, d \in DocIds :
       /\ ~includes(collections[p].items, d)
       /\ collections' = [collections EXCEPT ![p].items = Append(@, d)]
       /\ disturbed' = Disturb(0, collections[p].name)
  /\ extCount' = extCount + 1
  /\ UNCHANGED <<requestVars, input, index, nextId, runs, published, output, pc, locals,
                 calls, results, settled, prevOk>>

\* Another writer removes a document from a collection.
ExtRemove ==
  /\ extCount < MaxExt
  /\ \E p \in DOMAIN collections, d \in DocIds :
       /\ includes(collections[p].items, d)
       /\ collections' = [collections EXCEPT ![p].items =
                            SelectSeq(@, LAMBDA x : x # d)]
       /\ disturbed' = Disturb(0, collections[p].name)
  /\ extCount' = extCount + 1
  /\ UNCHANGED <<requestVars, input, index, nextId, runs, published, output, pc, locals,
                 calls, results, settled, prevOk>>

\* ------------------------------------------------- the search request
syncVars ==
  <<input, index, collections, nextId, extCount, runs, published, output,
    pc, locals, calls, results, settled, disturbed, prevOk>>

\* parseFilters(filters) is called
ParseFilters ==
  /\ returned.by = "none"
  /\ LET parsed == parseFilters(filters)
     IN  returned' = [by |-> "parseFilters", threw |-> parsed.threw,
                      filterDict |-> parsed.filterDict, payload |-> NoPayload]
  /\ UNCHANGED <<syncVars, tokens, filters, query>>

\* createApiPayload(query, filters) is called, as doSearch does
CreateApiPayload ==
  /\ returned.by = "none"
  /\ LET built == createApiPayload(query, filters)
     IN  returned' = [by |-> "createApiPayload", threw |-> built.threw,
                      filterDict |-> <<>>, payload |-> built.payload]
  /\ UNCHANGED <<syncVars, tokens, filters, query>>

\* --------------------------------------------------------------- spec
\* One configuration, invoked again and again, with other writers about.
Next ==
  \/ RunMalformed
  \/ Run
  \/ Exit
  \/ \E i \in Tasks : SearchReturns(i)
  \/ \E i \in Tasks : CreateReturns(i)
  \/ \E i \in Tasks : CreateRefused(i)
  \/ \E i \in Tasks : ListReturns(i)
  \/ \E i \in Tasks : ItemsReturns(i)
  \/ \E i \in Tasks : AddReturns(i)
  \/ \E i \in Tasks : DeleteReturns(i)
  \/ \E i \in Tasks : CallFails(i)
  \/ ExtCreate
  \/ ExtDelete
  \/ ExtAdd
  \/ ExtRemove

Spec == Init /\ [][Next]_vars

\* A batch of configurations running concurrently, invoked again and
\* again; no other writer.
NextBatch ==
  \/ RunMalformed
  \/ Run
  \/ Exit
  \/ \E i \in Tasks : SearchReturns(i)
  \/ \E i \in Tasks : CreateReturns(i)
  \/ \E i \in Tasks : CreateRefused(i)
  \/ \E i \in Tasks : ListReturns(i)
  \/ \E i \in Tasks : ItemsReturns(i)
  \/ \E i \in Tasks : AddReturns(i)
  \/ \E i \in Tasks : DeleteReturns(i)
  \/ \E i \in Tasks : CallFails(i)

SpecBatch == InitBatch /\ [][NextBatch]_vars

\* The search request construction on its own.
NextRequest ==
  \/ ParseFilters
  \/ CreateApiPayload

SpecRequest == InitRequest /\ [][NextRequest]_vars

\* ------------------------------------------------------------- claims
\* what the claims speak of
IsUpdated(i) == results[i].message = <<"Updated existing collection", collectionName(i)>>

IsCreated(i) == results[i].message = <<"Created new collection", collectionName(i)>>

IsNotFound(i) == results[i].error = <<"Collection not found", collectionName(i)>>

\* every call of configuration i was answered, none refused or rejected
AllCallsSucceeded(i) == AllAnswered(calls[i], {"ok", "exists"})

OpsOf(cs) == {cs[k].op : k \in DOMAIN cs}

\* the documents of the calls of kind op in cs
DocsOf(cs, op) == {cs[k].documentId : k \in {h \in DOMAIN cs : cs[h].op = op}}

\* createcollection was answered NAME_EXISTS
NameExistsAnswered(i) ==
  \E k \in DOMAIN calls[i] : calls[i][k].op = "create" /\ calls[i][k].res = "exists"

\* getcollection was answered: the code has computed its deltas
HadListing(i) ==
  \E k \in DOMAIN calls[i] : calls[i][k].op = "items" /\ calls[i][k].res = "ok"

\* the collections of this name on the remote
Named(name) == {k \in DOMAIN collections : collections[k].name = name}

NoDuplicates(s) == \A p, q \in DOMAIN s : s[p] = s[q] => p = q

\* ascending in string order (equal neighbours allowed)
IsSorted(s) == \A k \in DOMAIN s : k + 1 \in DOMAIN s => ~LexLess(s[k + 1], s[k])

\* a set of ids written out in ascending string order
RECURSIVE Ascending(_)
Ascending(S) ==
  IF S = {} THEN <<>>
  ELSE LET least == CHOOSE x \in S : \A y \in S \ {x} : LexLess(x, y)
       IN  <<least>> \o Ascending(S \ {least})

\* C1: when syncCollection has run to completion, every call answered and
\* no other writer on its collection, a collection of the configured name
\* exists and holds exactly the documents of the search response.
C1_CollectionEqualsSearch ==
  \A i \in Tasks :
    (pc[i] = "done" /\ AllCallsSucceeded(i) /\ ~disturbed[i]) =>
      /\ Named(collectionName(i)) # {}
      /\ \A k \in Named(collectionName(i)) :
           Range(collections[k].items) = Range(locals[i].searchDocumentIds)

C1_Witness ==
  \E i \in Tasks :
    /\ pc[i] = "done" /\ AllCallsSucceeded(i) /\ ~disturbed[i]
    /\ IsUpdated(i)
    /\ results[i].added_documents # <<>>
    /\ results[i].removed_documents # <<>>

\* C2: on the existing-collection path the documents of the add calls
\* (issued or still to issue) are S \ E, those of the delete calls are
\* E \ S, the two are disjoint, and with E \cap S they make up S \cup E.
C2_DeltasAreSetDifferences ==
  \A i \in Tasks :
    HadListing(i) =>
      LET S == Range(locals[i].searchDocumentIds)
          E == Range(locals[i].existingDocumentIds)
          scheduled == calls[i] \o locals[i].todo
          toAdd == DocsOf(scheduled, "add")
          toRemove == DocsOf(scheduled, "delete")
      IN  /\ toAdd = S \ E
          /\ toRemove = E \ S
          /\ toAdd \cap toRemove = {}
          /\ toAdd \cup (E \cap S) \cup toRemove = S \cup E
          /\ Range(locals[i].newDocumentIds) = toAdd
          /\ Range(locals[i].oldDocumentIds) = toRemove

C2_Witness ==
  \E i \in Tasks :
    /\ HadListing(i)
    /\ DocsOf(calls[i] \o locals[i].todo, "add") # {}
    /\ DocsOf(calls[i] \o locals[i].todo, "delete") # {}
    /\ Range(locals[i].searchDocumentIds)
         \cap Range(locals[i].existingDocumentIds) # {}

\* C3: a run that follows a successful, undisturbed run of the same
\* configuration, with the same search response and no other writer in
\* between, issues no add and no delete call and, run to completion,
\* returns Updated with nothing added and nothing removed.
C3_SecondRunIsNoOp ==
  \A i \in Tasks :
    (prevOk[i] /\ ~disturbed[i] /\ pc[i] # "idle") =>
      /\ OpsOf(calls[i]) \cap {"add", "delete"} = {}
      /\ (pc[i] = "done" /\ AllCallsSucceeded(i)) =>
           /\ IsUpdated(i)
           /\ results[i].added_documents = <<>>
           /\ results[i].removed_documents = <<>>

C3_Witness ==
  \E i \in Tasks :
    /\ prevOk[i] /\ ~disturbed[i]
    /\ pc[i] = "done" /\ AllCallsSucceeded(i)
    /\ IsUpdated(i)
    /\ Len(locals[i].searchDocumentIds) = 2

\* C4: every add call of a run is issued, and has returned, before the
\* first delete call is issued.
C4_AddsBeforeDeletes ==
  \A i \in Tasks :
    \A p \in DOMAIN calls[i] :
      calls[i][p].op = "delete" =>
        /\ \A q \in DOMAIN calls[i] :
             calls[i][q].op = "add" => (q < p /\ calls[i][q].res = "ok")
        /\ "add" \notin OpsOf(locals[i].todo)

C4_Witness ==
  \E i \in Tasks : {"add", "delete"} \subseteq OpsOf(calls[i])

\* C5: on the new-collection path there is no delete and no listing call,
\* and added_documents of the Created result is the set of the search
\* response's ids in ascending order.
C5_CreatedAddedIsSortedSet ==
  \A i \in Tasks :
    (pc[i] = "done" /\ locals[i].isNew) =>
      /\ OpsOf(calls[i]) \cap {"delete", "items", "list"} = {}
      /\ IsCreated(i)
      /\ results[i].added_documents =
           Ascending(Range(locals[i].searchDocumentIds))

\* C6: in every result added_documents and removed_documents are disjoint
\* and neither holds a document id twice.
C6_DeltasAreDisjointSets ==
  \A i \in Tasks :
    pc[i] = "done" =>
      /\ Range(results[i].added_documents)
           \cap Range(results[i].removed_documents) = {}
      /\ NoDuplicates(results[i].added_documents)
      /\ NoDuplicates(results[i].removed_documents)

\* C7: in an Updated result added_documents is S \ E and
\* removed_documents is E \ S, each in ascending string order, whatever
\* order the search and the listing returned the ids in.
C7_UpdatedDeltasSorted ==
  \A i \in Tasks :
    (pc[i] = "done" /\ IsUpdated(i)) =>
      LET S == Range(locals[i].searchDocumentIds)
          E == Range(locals[i].existingDocumentIds)
      IN  /\ IsSorted(results[i].added_documents)
          /\ Range(results[i].added_documents) = S \ E
          /\ IsSorted(results[i].removed_documents)
          /\ Range(results[i].removed_documents) = E \ S

\* the search returned the new ids in an order that is not the ascending
\* one, and something was removed as well
C7_Witness ==
  \E i \in Tasks :
    /\ pc[i] = "done" /\ IsUpdated(i)
    /\ ~IsSorted(locals[i].newDocumentIds)
    /\ results[i].removed_documents # <<>>

\* C8: once createcollection is answered NAME_EXISTS the run lists the
\* collections next, goes on with the id of the collection whose name is
\* exactly the configured one, and, every call answered, ends Updated.
C8_NameExistsContinuesOnExisting ==
  \A i \in Tasks :
    NameExistsAnswered(i) =>
      /\ \E k \in DOMAIN calls[i] :
           /\ calls[i][k].op = "create"
           /\ k + 1 \in DOMAIN calls[i]
           /\ calls[i][k + 1].op = "list"
      /\ pc[i] = "thrown" => calls[i][Len(calls[i])].res = "rejected"
      /\ (~disturbed[i] /\ locals[i].collectionId # 0) =>
           \E k \in Named(collectionName(i)) :
             collections[k].id = locals[i].collectionId
      /\ (~disturbed[i] /\ pc[i] = "done" /\ AllCallsSucceeded(i)) =>
           /\ IsUpdated(i)
           /\ results[i].collection_id = locals[i].collectionId
           /\ locals[i].collectionId # 0

\* a collection whose name differs only in case is listed first
C8_Witness ==
  \E i \in Tasks :
    /\ NameExistsAnswered(i)
    /\ ~disturbed[i] /\ pc[i] = "done" /\ AllCallsSucceeded(i)
    /\ IsUpdated(i)
    /\ collections # <<>>
    /\ collections[1].name # collectionName(i)

\* C9: when createcollection was answered NAME_EXISTS and the listing
\* holds no collection of exactly that name, the step that reads the
\* listing returns the error value naming the collection: no throw, no
\* further call, the remote unchanged; and a run whose result is that
\* error value has issued no listing of items, no add and no delete.
C9_NotFoundIsAnErrorValue ==
  [][\A i \in Tasks :
       /\ (/\ pc[i] = "list"
           /\ pc'[i] # "list"
           /\ calls'[i][Len(calls[i])].res = "ok"
           /\ Named(collectionName(i)) = {})
          => /\ pc'[i] = "done"
             /\ results'[i].error = <<"Collection not found", collectionName(i)>>
             /\ results'[i].message = NoValue
             /\ calls'[i] = Answered(calls[i], "ok")
             /\ collections' = collections
       /\ (pc'[i] = "done" /\ results'[i].error # NoValue
             /\ results'[i].error[1] = "Collection not found")
          => /\ results'[i].error = <<"Collection not found", collectionName(i)>>
             /\ OpsOf(calls'[i]) \cap {"items", "add", "delete"} = {}
    ]_vars

C9_Witness ==
  \E i \in Tasks :
    /\ pc[i] = "done"
    /\ IsNotFound(i)
    /\ NameExistsAnswered(i)

\* C10: in a batch, when every configuration has settled, each
\* configuration that returned has its result in the batch output, whether
\* or not a sibling failed.
C10_SiblingResultsReported ==
  (\A i \in Tasks : pc[i] \in {"done", "thrown"}) =>
    \A j \in Tasks :
      pc[j] = "done" =>
        /\ published = "result"
        /\ j \in DOMAIN output
        /\ output[j] = results[j]

\* C11: a published batch output has one entry per configuration of the
\* input list, and its i-th entry is what syncCollection of the i-th
\* configuration returned, whatever order the configurations returned in.
C11_OutputInInputOrder ==
  published = "result" =>
    /\ Len(output) = Len(input.configs)
    /\ \A i \in Tasks :
         /\ output[i] = results[i]
         /\ output[i].collection_name \in {NoValue, <<collectionName(i)>>}

\* the second configuration returned first, and the two results differ
C11_Witness ==
  /\ published = "result"
  /\ settled = <<2, 1>>
  /\ output[1] # output[2]
  /\ collectionName(1) # collectionName(2)

\* C12: with an input that does not parse, every step leaves the result
\* output unset and every configuration without a single call, and the
\* step of run() publishes the overall failure.
C12_MalformedInputFailsBeforeAnyCall ==
  [][~input.valid =>
       /\ published' \in {"none", "failed"}
       /\ output' = <<>>
       /\ \A i \in Tasks : pc'[i] = "idle" /\ calls'[i] = <<>>
       /\ runs' # runs => published' = "failed"
    ]_vars

C12_Witness ==
  /\ ~input.valid
  /\ runs > 0
  /\ published = "failed"
  /\ Tasks # {}

\* the keys of the tokens, each once, in the order they first occur
RECURSIVE keysInOrder(_, _)
keysInOrder(seen, ts) ==
  IF ts = <<>> THEN seen
  ELSE IF includes(seen, Head(ts).key) THEN keysInOrder(seen, Tail(ts))
  ELSE keysInOrder(Append(seen, Head(ts).key), Tail(ts))

\* the clauses of the tokens with this key, in token order
clausesOf(ts, key) ==
  LET mine == SelectSeq(ts, LAMBDA t : t.key = key)
  IN  [k \in DOMAIN mine |-> [value |-> mine[k].value, relationType |-> "EQUALS"]]

\* C13: for a filter expression written from key:value tokens,
\* parseFilters does not throw, the keys of the mapping it returns are the
\* keys of the tokens in order of first occurrence, every key maps to the
\* clauses of its tokens in token order, and the empty expression gives
\* the empty mapping.
C13_ParseFiltersPreservesTokens ==
  returned.by = "parseFilters" =>
    LET es == entries(returned.filterDict) IN
    /\ ~returned.threw
    /\ [k \in DOMAIN es |-> es[k].key] = keysInOrder(<<>>, tokens)
    /\ \A k \in DOMAIN es : es[k].values = clausesOf(tokens, es[k].key)
    /\ filters = <<>> => es = <<>>

\* C14: the calls of a run are issued one at a time, each after the one
\* before it has returned: search first, createcollection second,
\* listcollections third and only after NAME_EXISTS, getcollection fourth
\* and only after the listing, and the item calls after createcollection
\* gave an id or after getcollection.
C14_CallsStrictlySequential ==
  \A i \in Tasks :
    LET cs == calls[i] IN
    /\ Cardinality({k \in DOMAIN cs : cs[k].res = "pending"}) <= 1
    /\ \A k \in DOMAIN cs : k < Len(cs) => cs[k].res \in {"ok", "exists"}
    /\ \A k \in DOMAIN cs :
         /\ (cs[k].op = "search") <=> (k = 1)
         /\ (cs[k].op = "create") <=> (k = 2)
         /\ cs[k].op = "list" => (k = 3 /\ cs[2].res = "exists")
         /\ cs[k].op = "items" => (k = 4 /\ cs[3].op = "list")
         /\ cs[k].op \in {"add", "delete"} =>
              \/ k >= 3 /\ cs[2].res = "ok"
              \/ k >= 5 /\ cs[4].op = "items"
    /\ pc[i] \in {"search", "create", "list", "items", "add", "delete"} =>
         /\ cs # <<>>
         /\ cs[Len(cs)].op = pc[i]
         /\ cs[Len(cs)].res = "pending"

C14_Witness ==
  \E i \in Tasks :
    /\ {"list", "items", "add", "delete"} \subseteq OpsOf(calls[i])
    /\ pc[i] = "delete"

\* the number of calls of kind op in cs
CountOf(cs, op) == Cardinality({k \in DOMAIN cs : cs[k].op = op})

\* C15: in a run that went through, the add calls are as many as the
\* documents to add and the delete calls as many as the documents to
\* remove, and no document is the subject of two add or two delete calls.
C15_OneCallPerDocument ==
  \A i \in Tasks :
    (pc[i] = "done" /\ AllCallsSucceeded(i) /\ results[i].error = NoValue) =>
      LET S == Range(locals[i].searchDocumentIds)
          E == Range(locals[i].existingDocumentIds)
          adds == SelectSeq(calls[i], LAMBDA c : c.op = "add")
          deletes == SelectSeq(calls[i], LAMBDA c : c.op = "delete")
      IN  /\ Len(adds) = Cardinality(S \ E)
          /\ Len(deletes) = Cardinality(E \ S)
          /\ NoDuplicates([k \in DOMAIN adds |-> adds[k].documentId])
          /\ NoDuplicates([k \in DOMAIN deletes |-> deletes[k].documentId])

\* the documents of the calls of kind op that were answered
AppliedDocs(cs, op) ==
  {cs[k].documentId : k \in {h \in DOMAIN cs : cs[h].op = op /\ cs[h].res = "ok"}}

\* C16: a rejected call is the last call of its run: the run has thrown,
\* returned nothing and issues no call after it; and when it was an add
\* or a delete and no one else writes to the collection, the collection
\* holds what the calls before it left: the documents it had, with those
\* added that were added and without those that were removed.
C16_PartialFailureStopsTheRun ==
  \A i \in Tasks :
    \A k \in DOMAIN calls[i] :
      calls[i][k].res = "rejected" =>
        /\ k = Len(calls[i])
        /\ pc[i] = "thrown"
        /\ results[i] = NoResult
        /\ published = "failed"
        /\ i \notin Range(settled)
        /\ (calls[i][k].op \in {"add", "delete"} /\ ~disturbed[i]) =>
             \A p \in Named(collectionName(i)) :
               Range(collections[p].items) =
                 (Range(locals[i].existingDocumentIds)
                    \cup AppliedDocs(calls[i], "add"))
                   \ AppliedDocs(calls[i], "delete")

\* a delete is rejected after an add and a delete went through
C16_Witness ==
  \E i \in Tasks :
    /\ pc[i] = "thrown"
    /\ ~disturbed[i]
    /\ calls[i][Len(calls[i])].op = "delete"
    /\ AppliedDocs(calls[i], "add") # {}
    /\ AppliedDocs(calls[i], "delete") # {}

\* C17: a run calls createcollection at most once, and when the call is
\* rejected, or answered with neither an id nor NAME_EXISTS, it is the
\* last call of the run: the run throws, or returns the error value, with
\* no listing, no add and no delete call.
C17_CreateFailureIsFinal ==
  \A i \in Tasks :
    /\ CountOf(calls[i], "create") <= 1
    /\ pc[i] = "done" => CountOf(calls[i], "create") = 1
    /\ \A k \in DOMAIN calls[i] :
         (calls[i][k].op = "create" /\ calls[i][k].res \in {"refused", "rejected"}) =>
           /\ k = Len(calls[i])
           /\ OpsOf(calls[i]) \cap {"list", "items", "add", "delete"} = {}
           /\ calls[i][k].res = "rejected" =>
                (pc[i] = "thrown" /\ results[i] = NoResult)
           /\ calls[i][k].res = "refused" =>
                (pc[i] = "done" /\ results[i] = createErrorResult)

C17_Witness ==
  \E i \in Tasks :
    /\ pc[i] = "done"
    /\ results[i] = createErrorResult
    /\ calls[i][Len(calls[i])].op = "create"
    /\ calls[i][Len(calls[i])].res = "refused"

\* C18: when the listing shows the collection to hold exactly the
\* documents of the search response, the run has listed the items once,
\* issues no add and no delete call, and returns Updated with nothing
\* added and nothing removed.
C18_EqualSetsIsANoOpUpdate ==
  \A i \in Tasks :
    (/\ HadListing(i)
     /\ Range(locals[i].searchDocumentIds)
          = Range(locals[i].existingDocumentIds)) =>
      /\ CountOf(calls[i], "items") = 1
      /\ OpsOf(calls[i] \o locals[i].todo) \cap {"add", "delete"} = {}
      /\ pc[i] = "done"
      /\ IsUpdated(i)
      /\ results[i].error = NoValue
      /\ results[i].added_documents = <<>>
      /\ results[i].removed_documents = <<>>

\* the two sets are equal and not empty, and the search gave the ids in
\* another order than the listing
C18_Witness ==
  \E i \in Tasks :
    /\ HadListing(i)
    /\ pc[i] = "done"
    /\ Range(locals[i].searchDocumentIds) = Range(locals[i].existingDocumentIds)
    /\ locals[i].searchDocumentIds # locals[i].existingDocumentIds
    /\ Len(locals[i].existingDocumentIds) = 2

\* C19: when two runs on the same collection name have both gone through,
\* the collection holds the documents of the search response of the one
\* that returned last.
C19_LastReconciliationWins ==
  \A i, j \in Tasks :
    (/\ i # j
     /\ collectionName(i) = collectionName(j)
     /\ Succeeded(i) /\ Succeeded(j)
     /\ settled = <<i, j>>) =>
      \A p \in Named(collectionName(j)) :
        Range(collections[p].items) = Range(locals[j].searchDocumentIds)

\* C20: a payload createApiPayload returns has pageSize 1000, one facet
\* filter per key of the filter expression, in the order the parser's
\* mapping has them, each with the clauses of that key; no facet filter
\* for the empty expression; no query field for the empty query and the
\* query itself otherwise.
C20_PayloadShape ==
  (returned.by = "createApiPayload" /\ ~returned.threw) =>
    LET payload == returned.payload
        facetFilters == payload.requestOptions.facetFilters
        es == entries(parseFilters(filters).filterDict)
    IN  /\ payload.pageSize = 1000
        /\ [k \in DOMAIN facetFilters |-> facetFilters[k].fieldName]
             = [k \in DOMAIN es |-> es[k].key]
        /\ NoDuplicates([k \in DOMAIN facetFilters |-> facetFilters[k].fieldName])
        /\ {facetFilters[k].fieldName : k \in DOMAIN facetFilters}
             = {tokens[k].key : k \in DOMAIN tokens}
        /\ \A k \in DOMAIN facetFilters :
             facetFilters[k].values = clausesOf(tokens, facetFilters[k].fieldName)
        /\ filters = <<>> => facetFilters = <<>>
        /\ query = <<>> => (~payload.hasQuery /\ payload.query = undefined)
        /\ query # <<>> => (payload.hasQuery /\ payload.query = query)

\* two keys, one of them with two clauses, and a query
C20_Witness ==
  /\ returned.by = "createApiPayload"
  /\ ~returned.threw
  /\ query # <<>>
  /\ Len(returned.payload.requestOptions.facetFilters) = 2
  /\ \E k \in DOMAIN returned.payload.requestOptions.facetFilters :
       Len(returned.payload.requestOptions.facetFilters[k].values) = 2

\* C21: from the listing of the items on, and as long as no one else
\* writes to the collection, the collection holds every document of
\* E \cap S and none outside E \cup S, whether the calls go through or one
\* is rejected; and no add or delete call, issued or still to issue, is
\* about a document of E \cap S.
C21_IntermediateStatesBounded ==
  \A i \in Tasks :
    HadListing(i) =>
      LET S == Range(locals[i].searchDocumentIds)
          E == Range(locals[i].existingDocumentIds)
          scheduled == calls[i] \o locals[i].todo
      IN  /\ (DocsOf(scheduled, "add") \cup DocsOf(scheduled, "delete"))
               \cap (E \cap S) = {}
          /\ ~disturbed[i] =>
               /\ Named(collectionName(i)) # {}
               /\ \A p \in Named(collectionName(i)) :
                    /\ (E \cap S) \subseteq Range(collections[p].items)
                    /\ Range(collections[p].items) \subseteq (E \cup S)

\* the add is rejected: the document to add is not there, the one to
\* remove still is, and one is kept
C21_Witness ==
  \E i \in Tasks :
    /\ HadListing(i) /\ ~disturbed[i]
    /\ pc[i] = "thrown"
    /\ calls[i][Len(calls[i])].op = "add"
    /\ Range(locals[i].searchDocumentIds)
         \cap Range(locals[i].existingDocumentIds) # {}
    /\ Range(locals[i].existingDocumentIds)
         \ Range(locals[i].searchDocumentIds) # {}

\* the configurations of the batch name pairwise distinct collections
DistinctNames ==
  \A i, j \in Tasks : i # j => collectionName(i) # collectionName(j)

\* C22: in a batch of pairwise distinct names no configuration writes to
\* the collection of another: every add and delete call of a
\* configuration goes to the collection of its own name, which it created
\* or located; and when all have gone through, whatever the interleaving,
\* each collection holds the documents of its configuration's search, and
\* each result is the one the configuration's own search and its own
\* collection determine.
C22_DistinctNamesAreIndependent ==
  DistinctNames =>
    /\ \A i \in Tasks :
         /\ ~disturbed[i]
         /\ OpsOf(calls[i]) \cap {"add", "delete"} # {} =>
              /\ locals[i].collectionId # 0
              /\ PosOfId(locals[i].collectionId) # 0
              /\ collections[PosOfId(locals[i].collectionId)].name
                   = collectionName(i)
    /\ (Tasks # {} /\ \A i \in Tasks : Succeeded(i)) =>
         /\ published = "result"
         /\ output = results
         /\ \A i \in Tasks :
              LET S == locals[i].searchDocumentIds
                  E == locals[i].existingDocumentIds
              IN  /\ Cardinality(Named(collectionName(i))) = 1
                  /\ \A p \in Named(collectionName(i)) :
                       /\ Range(collections[p].items) = Range(S)
                       /\ results[i].collection_id = collections[p].id
                  /\ locals[i].isNew =>
                       /\ IsCreated(i)
                       /\ E = <<>>
                       /\ results[i].added_documents = S
                  /\ ~locals[i].isNew =>
                       /\ IsUpdated(i)
                       /\ results[i].added_documents
                            = sort(newDocumentIdsOf(S, E))
                       /\ results[i].removed_documents
                            = sort(oldDocumentIdsOf(S, E))

\* both configurations updated their collections, the second returning
\* first, each with a document to add and one to remove
C22_Witness ==
  /\ Len(input.configs) = 2
  /\ DistinctNames
  /\ \A i \in Tasks : Succeeded(i) /\ IsUpdated(i)
  /\ settled = <<2, 1>>
  /\ \A i \in Tasks :
       /\ results[i].added_documents # <<>>
       /\ results[i].removed_documents # <<>>

\* what run() has published fits what its configurations did
PublishedFits ==
  /\ published \in {"none", "result", "failed"}
  /\ published = "result" =>
       /\ input.valid
       /\ \A i \in Tasks : pc[i] = "done"
       /\ Len(output) = Len(input.configs)
       /\ \A i \in Tasks : output[i] = results[i]
  /\ published = "failed" =>
       /\ output = <<>>
       /\ ~input.valid \/ \E i \in Tasks : pc[i] = "thrown"
  /\ (\E i \in Tasks : pc[i] = "thrown") => published = "failed"
  /\ (Tasks # {} /\ \A i \in Tasks : pc[i] = "done") => published = "result"
  /\ \A i \in Tasks :
       (pc[i] = "done" /\ results[i].error # NoValue) =>
         results[i] \in {notFoundResult(collectionName(i)), createErrorResult}

\* C23: once every syncCollection has settled, run() has published the
\* result output or the overall failure; the failure if and only if the
\* input did not parse or a syncCollection threw, the result otherwise,
\* with the error values of the configurations among its entries; and
\* what is published is not replaced by the other before the process ends.
C23_ExactlyOneOutcome ==
  [][/\ PublishedFits'
     /\ (runs' # runs /\ ~input.valid) => published' = "failed"
     /\ (runs' # runs /\ input.valid /\ Tasks = {}) => published' = "result"
     /\ (published # "none" /\ published' # published) =>
          /\ published' = "none"
          /\ \A i \in Tasks : pc'[i] = "idle"
    ]_vars

\* a result output with an error value in it, next to the result of a
\* configuration that went through
C23_Witness ==
  /\ published = "result"
  /\ Len(output) = 2
  /\ output[1] = createErrorResult
  /\ Succeeded(2)
  /\ output[2].added_documents # <<>>

====
